---- MODULE Spec2Model ----
(***************************************************************************)
(* Model of the bravesite Cloudflare Worker (src/worker.js): the request   *)
(* pipeline handleRequest -> processApiResponse -> fetchIPFS, with the     *)
(* process-wide apiCache.  Code that runs between two awaits runs          *)
(* atomically (one JavaScript job), so every action below is the code from *)
(* one suspension point to the next.                                       *)
(***************************************************************************)
EXTENDS Integers, Sequences, FiniteSets, TLC

(***************************************************************************)
(* Bounds of the model.                                                    *)
(***************************************************************************)
\* number of requests the runtime delivers to the worker (they may overlap)
NumReqs == 2
\* longest hostname, in dot-separated labels, of the hostname specification
MaxLabels == 4

(***************************************************************************)
(* Strings are sequences of characters, so that split, join, slice and     *)
(* endsWith are computed the way JavaScript computes them.                 *)
(***************************************************************************)
DOT == <<".">>
BRAVE == <<"b", "r", "a", "v", "e">>
SITE == <<"s", "i", "t", "e">>
COM == <<"c", "o", "m">>
BraveSite == BRAVE \o DOT \o SITE
DotBraveSite == DOT \o BraveSite
DotBrave == DOT \o BRAVE

\* String.prototype.endsWith
endsWith(s, suffix) ==
    /\ Len(s) >= Len(suffix)
    /\ SubSeq(s, Len(s) - Len(suffix) + 1, Len(s)) = suffix

\* String.prototype.split('.'): the labels between the dots (an empty string
\* gives one empty label)
RECURSIVE splitFrom(_, _, _)
splitFrom(s, i, cur) ==
    IF i > Len(s) THEN <<cur>>
    ELSE IF s[i] = "." THEN <<cur>> \o splitFrom(s, i + 1, <<>>)
    ELSE splitFrom(s, i + 1, Append(cur, s[i]))

split(s) == splitFrom(s, 1, <<>>)

\* Array.prototype.join('.')
RECURSIVE join(_)
join(parts) ==
    IF Len(parts) = 0 THEN <<>>
    ELSE IF Len(parts) = 1 THEN parts[1]
    ELSE parts[1] \o DOT \o join(Tail(parts))

\* Array.prototype.slice(0, -n)
sliceDropLast(parts, n) ==
    IF Len(parts) <= n THEN <<>> ELSE SubSeq(parts, 1, Len(parts) - n)

(***************************************************************************)
(* handleRequest, lines 87-123: what the hostname parses to.               *)
(***************************************************************************)
\* faulty variant: slice(0, -1) keeps the 'brave' label
targetDomainPartsDropOne(parts) == sliceDropLast(parts, 1)

\* parts.slice(0, -2): remove 'brave' and 'site'
targetDomainParts(parts) == sliceDropLast(parts, 2)

braveDomainToQuery(hostname) ==
    join(targetDomainParts(split(hostname))) \o DotBrave

\* faulty variant: endsWith('brave.site'), without the leading dot
hasSuffixLoose(hostname) == endsWith(hostname, BraveSite)

\* hostname.endsWith('.brave.site')
hasSuffix(hostname) == endsWith(hostname, DotBraveSite)

\* faulty variant: compares with '.brave.site'
isRootDotted(hostname) == hostname = DotBraveSite

\* hostname === 'brave.site'
isRoot(hostname) == hostname = BraveSite

\* "welcome", "unsupported", "tooFewParts", "missingDomain" or "query"
parseHostname(hostname) ==
    IF ~hasSuffix(hostname)
    THEN IF isRoot(hostname) THEN "welcome" ELSE "unsupported"
    ELSE IF Len(split(hostname)) < 3 THEN "tooFewParts"
    ELSE IF Len(targetDomainParts(split(hostname))) = 0 THEN "missingDomain"
    ELSE "query"

(***************************************************************************)
(* Values.  A resolution record is the decoded JSON body of the resolver:  *)
(* `at` says where the body carries its record-name mapping ("records",    *)
(* "data.records" or "none"), `map` is that mapping.  A record-name that   *)
(* the mapping does not hold reads as Undefined.                           *)
(***************************************************************************)
Undefined == "<undefined>"
Null == "<null>"
GoodUrl == "https://x.example/"
BadUrl == "not a url"

RecordNames ==
    {"browser.redirect_url", "dweb.ipfs.hash", "ipfs.html.value", "crypto.IPFS.value"}

\* JavaScript truthiness of a string-valued record field
Truthy(v) == v \notin {Undefined, Null, ""}

\* a || b
Or(a, b) == IF Truthy(a) THEN a ELSE b

\* new URL(url) succeeds (Response.redirect throws a TypeError otherwise)
validUrl(url) == url = GoodUrl

MkRecord(at, redirect, dweb, html, crypto) ==
    [at |-> at,
     map |-> [n \in RecordNames |->
                CASE n = "browser.redirect_url" -> redirect
                  [] n = "dweb.ipfs.hash" -> dweb
                  [] n = "ipfs.html.value" -> html
                  [] OTHER -> crypto]]

\* every record over absent, empty and set fields
AllRecords ==
    {MkRecord(at, rd, d, h, c) :
        at \in {"records", "data.records"},
        rd \in {Undefined, "", GoodUrl, BadUrl},
        d \in {Undefined, "", "QmDweb"},
        h \in {Undefined, "", "QmHtml"},
        c \in {Undefined, "", "QmCrypto"}}
    \cup {MkRecord("none", Undefined, Undefined, Undefined, Undefined)}

\* the records the resolver serves in the pipeline specification
Records ==
    {MkRecord("records", GoodUrl, "QmDweb", Undefined, Undefined),
     MkRecord("records", BadUrl, Undefined, Undefined, Undefined),
     MkRecord("records", "", "", "QmHtml", "QmCrypto"),
     MkRecord("data.records", GoodUrl, "QmDweb", Undefined, Undefined),
     MkRecord("none", Undefined, Undefined, Undefined, Undefined)}

(***************************************************************************)
(* processApiResponse, lines 177-192: reading the record.                  *)
(***************************************************************************)
\* record.records?.[name]
recordsField(record, name) ==
    IF record.at = "records" THEN record.map[name] ELSE Undefined

\* faulty variant: the || chain in the reverse order
ipfsHashLastWins(record) ==
    Or(Or(Or(recordsField(record, "crypto.IPFS.value"),
             recordsField(record, "ipfs.html.value")),
          recordsField(record, "dweb.ipfs.hash")),
       Null)

\* lines 185-188
ipfsHash(record) ==
    Or(Or(Or(recordsField(record, "dweb.ipfs.hash"),
             recordsField(record, "ipfs.html.value")),
          recordsField(record, "crypto.IPFS.value")),
       Null)

\* faulty variant: the redirect is read only when there is no content hash
redirectUrlAfterHash(record) ==
    IF Truthy(ipfsHash(record)) THEN Undefined
    ELSE recordsField(record, "browser.redirect_url")

\* line 178
redirectUrl(record) == recordsField(record, "browser.redirect_url")

(***************************************************************************)
(* fetchIPFS, lines 2-7 and 48-64.                                         *)
(***************************************************************************)
gateways == <<"cloudflare-ipfs.com", "ipfs.io", "dweb.link">>
Gateways == 1 .. Len(gateways)
\* fetchIPFS(ipfsHash, retries = 3, delay = 1000)
retries == 3

\* how one network request settles: a 2xx response, another status, or a
\* network error
Settlements == {"ok", "status", "error"}

\* what a gateway request settles with: a Response, of which the pipeline
\* reads status (through ok), the Content-Type header and the path of url,
\* or a network error, on which fetch rejects
GatewayResponse(status, type, path) ==
    [error |-> FALSE, status |-> status, contentType |-> type, path |-> path]

NetworkError == [error |-> TRUE, status |-> 0, contentType |-> Null, path |-> <<>>]

\* no Response yet
NoGatewayResponse == GatewayResponse(0, Null, <<>>)

\* response.ok
ok(x) == x.status \in 200 .. 299

\* a 2xx response, another status, or a network error
settlement(x) == IF x.error THEN "error" ELSE IF ok(x) THEN "ok" ELSE "status"

DotPng == <<".", "p", "n", "g">>
DotJpg == <<".", "j", "p", "g">>
DotJson == <<".", "j", "s", "o", "n">>
DotJpeg == <<".", "j", "p", "e", "g">>
Slash == <<"/">>
File == <<"/", "a">>

\* paths of response urls: no extension, the three extensions of lines
\* 205-207, and near misses of them
Paths ==
    {Slash, File, File \o DotPng, File \o DotJpg, File \o DotJson, File \o DotJpeg,
     File \o <<".", "P", "N", "G">>, <<"/", "p", "n", "g">>, File \o DotJson \o DotPng,
     File \o DotPng \o Slash}

\* values of headers.get('Content-Type'): null without the header
ContentTypes == {Null, "", "text/css", "image/png"}

\* every way a gateway request settles in the content specification
GatewayResponses ==
    {NetworkError, GatewayResponse(404, "text/css", File \o DotPng),
     GatewayResponse(300, Null, Slash), GatewayResponse(199, Null, Slash),
     GatewayResponse(299, Null, Slash)}
    \cup {GatewayResponse(200, t, p) : t \in ContentTypes, p \in Paths}

\* the ways a gateway request settles in the other specifications
FewGatewayResponses ==
    {NetworkError, GatewayResponse(404, Null, Slash),
     GatewayResponse(200, "text/css", File \o DotPng)}

\* faulty variant: the path of the url decides before the header
contentTypePathFirst(x) ==
    IF endsWith(x.path, DotPng) THEN "image/png"
    ELSE IF endsWith(x.path, DotJpg) THEN "image/jpeg"
    ELSE IF endsWith(x.path, DotJson) THEN "application/json"
    ELSE IF Truthy(x.contentType) THEN x.contentType
    ELSE "text/html"

\* lines 202-209: the Content-Type of the served response
contentType(x) ==
    IF Truthy(x.contentType) THEN x.contentType
    ELSE IF endsWith(x.path, DotPng) THEN "image/png"
    ELSE IF endsWith(x.path, DotJpg) THEN "image/jpeg"
    ELSE IF endsWith(x.path, DotJson) THEN "application/json"
    ELSE "text/html"

(***************************************************************************)
(* State.                                                                  *)
(*   apiKey    env.UNSTOPPABLE_API_KEY, fixed for the process              *)
(*   apiCache  the module-level Map, braveDomainToQuery -> record          *)
(*   resolved  history: the keys some resolver query has answered with a   *)
(*             decoded record                                              *)
(*   answered  history: for each of these keys, the record of the latest   *)
(*             such answer                                                 *)
(*   counting  whether the history counters of fetchIPFS are kept (they    *)
(*             are read by no step of the program)                         *)
(*   req       per request: where handleRequest stands (pc), its locals,   *)
(*             how its promise settled, and history                        *)
(***************************************************************************)
VARIABLES apiKey, apiCache, resolved, answered, counting, req

vars == <<apiKey, apiCache, resolved, answered, counting, req>>

Reqs == 1 .. NumReqs

NoResponse ==
    [status |-> 0, body |-> "", Location |-> "", ipfsHash |-> "",
     ContentType |-> Null, CacheControl |-> Null, AccessControlAllowOrigin |-> Null]

\* no record yet
NoRecord == MkRecord("absent", Undefined, Undefined, Undefined, Undefined)

IdleReq ==
    [pc |-> "idle",            \* idle, resolve, errtext, json, race, fallback, delay, blob, done
     hostname |-> <<>>,
     key |-> <<>>,             \* braveDomainToQuery
     afterResolved |-> FALSE,  \* history: key was in `resolved` when the request started
     cacheHit |-> FALSE,       \* took lines 128-131
     record |-> NoRecord,      \* record (line 151) or cachedData (line 130)
     ipfsHash |-> "",
     pending |-> {},           \* gateways whose Phase 1 request is still in flight
     raceFirst |-> "none",     \* history: how the first Phase 1 request settled
     gateway |-> 0,            \* Phase 2: index into gateways, and attempt i
     i |-> 0,
     ipfsResponse |-> [gateway |-> 0, phase |-> "none"],
     fetchResponse |-> NoGatewayResponse,  \* the Response fetchIPFS returned
     contentType |-> Null,     \* line 202
     outcome |-> "none",       \* none, response (fulfilled) or rejected
     response |-> NoResponse,
     lookups |-> 0,            \* history: apiCache.has calls
     queries |-> 0,            \* history: resolver requests issued
     fetched |-> FALSE,        \* history: fetchIPFS was called
     gwReqs |-> 0,             \* history, when counting: gateway requests issued
     delays |-> 0]             \* history, when counting: inter-attempt delays started

Init ==
    /\ apiKey \in {"", "secret"}
    /\ apiCache = <<>>
    /\ resolved = {}
    /\ answered = <<>>
    /\ counting = FALSE
    /\ req = [r \in Reqs |-> IdleReq]

\* a history counter n after k more events
count(n, k) == IF counting THEN n + k ELSE n

(***************************************************************************)
(* Ends of a request.                                                      *)
(***************************************************************************)
\* Content-Type the Response constructor gives a string body when the
\* headers name none
TextPlainDefault == "text/plain;charset=UTF-8"

\* the promise of handleRequest fulfils with a Response
respond(q, status, body) ==
    [q EXCEPT !.pc = "done", !.outcome = "response", !.gateway = 0, !.i = 0,
              !.response = [NoResponse EXCEPT !.status = status, !.body = body,
                                              !.ContentType = TextPlainDefault]]

\* an exception no catch converts: the promise of handleRequest rejects
reject(q) ==
    [q EXCEPT !.pc = "done", !.outcome = "rejected", !.gateway = 0, !.i = 0]

\* Response.redirect(redirectUrl, 302), line 182
redirect(q, url) ==
    IF validUrl(url)
    THEN [respond(q, 302, "") EXCEPT !.response.Location = url,
                                     !.response.ContentType = Null]
    ELSE reject(q)

(***************************************************************************)
(* apiCache, lines 71, 128, 130 and 157.                                   *)
(***************************************************************************)
apiCacheHas(cache, key) == key \in DOMAIN cache

\* faulty variant: the cached record comes back without its mapping
apiCacheGetStripped(cache, key) ==
    MkRecord("none", Undefined, Undefined, Undefined, Undefined)

apiCacheGet(cache, key) == cache[key]

\* faulty variant: the record is not stored
apiCacheSetNothing(cache, key, record) == cache

\* faulty variant: an entry already present is kept
apiCacheSetFirstWins(cache, key, record) ==
    IF key \in DOMAIN cache THEN cache
    ELSE [k \in DOMAIN cache \cup {key} |-> IF k = key THEN record ELSE cache[k]]

apiCacheSet(cache, key, record) ==
    [k \in DOMAIN cache \cup {key} |-> IF k = key THEN record ELSE cache[k]]

(***************************************************************************)
(* fetchIPFS.                                                              *)
(***************************************************************************)
\* lines 9-32: one request to every gateway, then await Promise.race
startRace(q, hash) ==
    [q EXCEPT !.pc = "race", !.ipfsHash = hash, !.pending = Gateways,
              !.fetched = TRUE, !.gwReqs = count(@, Len(gateways))]

\* lines 51-52: await fetch(gateway), attempt i of the fallback
startAttempt(q, g, i) ==
    [q EXCEPT !.pc = "fallback", !.gateway = g, !.i = i, !.gwReqs = count(@, 1)]

\* faulty variant: one attempt per gateway
nextAttemptSkipsRetries(q) ==
    IF q.gateway < Len(gateways) THEN startAttempt(q, q.gateway + 1, 0)
    ELSE respond(q, 500, "Error fetching IPFS content: All gateways failed")

\* faulty variant: gives up after the first gateway
nextAttemptOneGateway(q) ==
    IF q.i + 1 < retries THEN startAttempt(q, q.gateway, q.i + 1)
    ELSE respond(q, 500, "Error fetching IPFS content: All gateways failed")

\* lines 48-49 and 66-67 with 197-199: the loops after attempt i on the
\* gateway has failed; when both are exhausted fetchIPFS returns null and
\* processApiResponse answers 500
nextAttempt(q) ==
    IF q.i + 1 < retries THEN startAttempt(q, q.gateway, q.i + 1)
    ELSE IF q.gateway < Len(gateways) THEN startAttempt(q, q.gateway + 1, 0)
    ELSE respond(q, 500, "Error fetching IPFS content: All gateways failed")

\* lines 201-213: fetchIPFS returned the response x of gateway g; the
\* content type is resolved and the body read is awaited
serve(q, g, phase, x) ==
    [q EXCEPT !.pc = "blob", !.gateway = 0, !.i = 0,
              !.ipfsResponse = [gateway |-> g, phase |-> phase],
              !.fetchResponse = x, !.contentType = contentType(x)]

(***************************************************************************)
(* processApiResponse up to its first await, lines 174-196.                *)
(***************************************************************************)
processApiResponse(q, record) ==
    LET p == [q EXCEPT !.record = record]
    IN  IF Truthy(redirectUrl(record)) THEN redirect(p, redirectUrl(record))
        ELSE IF ~Truthy(ipfsHash(record))
        THEN respond(p, 404, "No IPFS hash found for domain")
        ELSE startRace(p, ipfsHash(record))

(***************************************************************************)
(* Inputs.                                                                 *)
(***************************************************************************)
A == <<"a">>
B == <<"b">>

\* the hostnames of the pipeline specification
Hostnames ==
    {BraveSite, join(<<A, COM>>), join(<<A, BRAVE, SITE>>), join(<<B, A, BRAVE, SITE>>)}

\* the hostnames of the hostname specification: every non-empty hostname of
\* at most n labels over these labels
Labels == {<<>>, A, BRAVE, SITE, <<"x">> \o BRAVE}

LabelSeqs(n) == UNION {[1 .. m -> Labels] : m \in 1 .. n}

HostnamesUpTo(n) == {join(ls) : ls \in LabelSeqs(n)} \ {<<>>}

(***************************************************************************)
(* handleRequest.                                                          *)
(***************************************************************************)
\* faulty variant: the API key is not checked
handleRequestKeyUnchecked(q, hostname) ==
    LET h == [q EXCEPT !.hostname = hostname]
        p == parseHostname(hostname)
        key == braveDomainToQuery(hostname)
        k == [h EXCEPT !.key = key, !.lookups = 1, !.afterResolved = key \in resolved]
    IN  IF p = "welcome"
        THEN [respond(h, 200, "Welcome to the .brave domain resolver")
                 EXCEPT !.response.ContentType = "text/plain"]
        ELSE IF p = "unsupported"
        THEN respond(h, 400, "Invalid or unsupported domain format")
        ELSE IF p = "tooFewParts" THEN respond(h, 400, "Invalid domain format.")
        ELSE IF p = "missingDomain" THEN respond(h, 400, "Please specify a domain")
        ELSE IF apiCacheHas(apiCache, key)
        THEN processApiResponse([k EXCEPT !.cacheHit = TRUE], apiCacheGet(apiCache, key))
        ELSE [k EXCEPT !.pc = "resolve", !.queries = 1]

\* lines 80-136: from the call to the first await.  With the key cached the
\* request continues in processApiResponse, otherwise the resolver query is
\* issued.
handleRequest(q, hostname) ==
    LET h == [q EXCEPT !.hostname = hostname]
        p == parseHostname(hostname)
        key == braveDomainToQuery(hostname)
        k == [h EXCEPT !.key = key, !.lookups = 1, !.afterResolved = key \in resolved]
    IN  IF ~Truthy(apiKey) THEN respond(h, 500, "API key not valid")
        ELSE IF p = "welcome"
        THEN [respond(h, 200, "Welcome to the .brave domain resolver")
                 EXCEPT !.response.ContentType = "text/plain"]
        ELSE IF p = "unsupported"
        THEN respond(h, 400, "Invalid or unsupported domain format")
        ELSE IF p = "tooFewParts" THEN respond(h, 400, "Invalid domain format.")
        ELSE IF p = "missingDomain" THEN respond(h, 400, "Please specify a domain")
        ELSE IF apiCacheHas(apiCache, key)
        THEN processApiResponse([k EXCEPT !.cacheHit = TRUE], apiCacheGet(apiCache, key))
        ELSE [k EXCEPT !.pc = "resolve", !.queries = 1]

Start(r, hostname) ==
    /\ req[r].pc = "idle"
    /\ req' = [req EXCEPT ![r] = handleRequest(req[r], hostname)]
    /\ UNCHANGED <<apiKey, apiCache, resolved, answered, counting>>

\* faulty variant: a resolver request that raised a network error is
\* issued once more
ResolverSettleRetries(r, s) ==
    /\ req[r].pc = "resolve"
    /\ req' = [req EXCEPT ![r] =
                 CASE s = "ok" -> [@ EXCEPT !.pc = "json"]
                   [] s = "status" -> [@ EXCEPT !.pc = "errtext"]
                   [] OTHER -> IF @.queries < 2 THEN [@ EXCEPT !.queries = @ + 1]
                               ELSE respond(@, 500, "Server error")]
    /\ UNCHANGED <<apiKey, apiCache, resolved, answered, counting>>

\* lines 136-149: the resolver request settles.  A network error is thrown
\* inside the try and answered 500 by the catch of lines 163-166.
ResolverSettle(r, s) ==
    /\ req[r].pc = "resolve"
    /\ req' = [req EXCEPT ![r] =
                 CASE s = "ok" -> [@ EXCEPT !.pc = "json"]
                   [] s = "status" -> [@ EXCEPT !.pc = "errtext"]
                   [] OTHER -> respond(@, 500, "Server error")]
    /\ UNCHANGED <<apiKey, apiCache, resolved, answered, counting>>

\* lines 146-148: await response.text() of a non-2xx resolver response
ErrTextSettle(r, read) ==
    /\ req[r].pc = "errtext"
    /\ req' = [req EXCEPT ![r] =
                 IF read THEN respond(@, 500, "Error querying Unstoppable Domains")
                 ELSE respond(@, 500, "Server error")]
    /\ UNCHANGED <<apiKey, apiCache, resolved, answered, counting>>

\* faulty variant: the body is cached before it is decoded
JsonSettleCachesFirst(r, decoded, record) ==
    /\ req[r].pc = "json"
    /\ apiCache' = apiCacheSet(apiCache, req[r].key, record)
    /\ IF decoded
       THEN /\ resolved' = resolved \cup {req[r].key}
            /\ answered' = [k \in resolved' |->
                               IF k = req[r].key THEN record ELSE answered[k]]
            /\ req' = [req EXCEPT ![r] = processApiResponse(@, record)]
       ELSE /\ req' = [req EXCEPT ![r] = respond(@, 500, "Server error")]
            /\ UNCHANGED <<resolved, answered>>
    /\ UNCHANGED <<apiKey, counting>>

\* lines 151-162: await response.json().  A body that does not decode, or
\* decodes to null (line 153 then throws), is answered 500 by the catch and
\* nothing is cached; a decoded record is cached and processed.
JsonSettle(r, decoded, record) ==
    /\ req[r].pc = "json"
    /\ IF decoded
       THEN /\ apiCache' = apiCacheSet(apiCache, req[r].key, record)
            /\ resolved' = resolved \cup {req[r].key}
            /\ answered' = [k \in resolved' |->
                               IF k = req[r].key THEN record ELSE answered[k]]
            /\ req' = [req EXCEPT ![r] = processApiResponse(@, record)]
       ELSE /\ req' = [req EXCEPT ![r] = respond(@, 500, "Server error")]
            /\ UNCHANGED <<apiCache, resolved, answered>>
    /\ UNCHANGED <<apiKey, counting>>

(***************************************************************************)
(* fetchIPFS and the rest of processApiResponse.                           *)
(***************************************************************************)
\* faulty variant: a failed candidate is ignored while others are in flight
\* (Promise.any)
raceSettledWaits(q, g, x) ==
    LET d == [q EXCEPT !.pending = @ \ {g}, !.raceFirst = settlement(x)]
    IN  IF settlement(x) = "ok" THEN serve(d, g, "race", x)
        ELSE IF d.pending # {} THEN d
        ELSE startAttempt(d, 1, 0)

\* line 32: the first Phase 1 request settles and decides Promise.race
raceSettled(q, g, x) ==
    LET d == [q EXCEPT !.pending = @ \ {g}, !.raceFirst = settlement(x)]
    IN  IF settlement(x) = "ok" THEN serve(d, g, "race", x) ELSE startAttempt(d, 1, 0)

RaceSettle(r, g, x) ==
    /\ req[r].pc = "race"
    /\ g \in req[r].pending
    /\ req' = [req EXCEPT ![r] = raceSettled(@, g, x)]
    /\ UNCHANGED <<apiKey, apiCache, resolved, answered, counting>>

\* lines 11-24 after the race is decided: a later Phase 1 request settles;
\* Promise.race has a handler on it, nothing else reads it
LateSettle(r, g, x) ==
    /\ req[r].pc # "race"
    /\ g \in req[r].pending
    /\ req' = [req EXCEPT ![r].pending = @ \ {g}]
    /\ UNCHANGED <<apiKey, apiCache, resolved, answered, counting>>

\* faulty variant: any Response is returned, whatever its status
fallbackSettledAnyStatus(q, x) ==
    IF ~x.error THEN serve(q, q.gateway, "fallback", x)
    ELSE nextAttempt(q)

\* lines 52-62: the Phase 2 request in flight settles
fallbackSettled(q, x) ==
    IF settlement(x) = "ok" THEN serve(q, q.gateway, "fallback", x)
    ELSE IF settlement(x) = "status" /\ q.i < retries - 1
    THEN [q EXCEPT !.pc = "delay", !.delays = count(@, 1)]
    ELSE nextAttempt(q)

FallbackSettle(r, x) ==
    /\ req[r].pc = "fallback"
    /\ req' = [req EXCEPT ![r] = fallbackSettled(@, x)]
    /\ UNCHANGED <<apiKey, apiCache, resolved, answered, counting>>

\* line 58: the timer of the inter-attempt delay fires
DelayElapse(r) ==
    /\ req[r].pc = "delay"
    /\ req' = [req EXCEPT ![r] = nextAttempt(@)]
    /\ UNCHANGED <<apiKey, apiCache, resolved, answered, counting>>

\* lines 213-220: await ipfsResponse.blob(); a failed read rejects the
\* promise of processApiResponse, which handleRequest returned un-awaited
blobSettled(q, read) ==
    IF read
    THEN [respond(q, 200, "ipfs content")
             EXCEPT !.response.ipfsHash = q.ipfsHash,
                    !.response.ContentType = q.contentType,
                    !.response.CacheControl = "public, max-age=3600",
                    !.response.AccessControlAllowOrigin = "*"]
    ELSE reject(q)

BlobSettle(r, read) ==
    /\ req[r].pc = "blob"
    /\ req' = [req EXCEPT ![r] = blobSettled(@, read)]
    /\ UNCHANGED <<apiKey, apiCache, resolved, answered, counting>>

(***************************************************************************)
(* Specifications.                                                         *)
(***************************************************************************)
\* handleRequest has returned and its promise has settled
Done(r) == req[r].pc = "done"

\* every step request r can take, over hostnames H, resolver records R and
\* gateway settlements X
Step(r, H, R, X) ==
    \/ \E hostname \in H : Start(r, hostname)
    \/ \E s \in Settlements : ResolverSettle(r, s)
    \/ \E read \in BOOLEAN : ErrTextSettle(r, read)
    \/ \E decoded \in BOOLEAN, record \in R : JsonSettle(r, decoded, record)
    \/ \E g \in Gateways, x \in X : RaceSettle(r, g, x)
    \/ \E g \in Gateways, x \in X : LateSettle(r, g, x)
    \/ \E x \in X : FallbackSettle(r, x)
    \/ DelayElapse(r)
    \/ \E read \in BOOLEAN : BlobSettle(r, read)

\* the pipeline: NumReqs overlapping requests
Next == \E r \in Reqs : Step(r, Hostnames, Records, FewGatewayResponses)

Spec == Init /\ [][Next]_vars

\* one request over every hostname of at most MaxLabels labels
NextHost == Step(1, HostnamesUpTo(MaxLabels), Records, FewGatewayResponses)

SpecHost == Init /\ [][NextHost]_vars

\* one request for a.brave.site over every record, with the history counters
\* of fetchIPFS kept
InitOne ==
    /\ apiKey \in {"", "secret"}
    /\ apiCache = <<>>
    /\ resolved = {}
    /\ answered = <<>>
    /\ counting = TRUE
    /\ req = [r \in Reqs |-> IdleReq]

NextOne == Step(1, {join(<<A, BRAVE, SITE>>)}, AllRecords, FewGatewayResponses)

SpecOne == InitOne /\ [][NextOne]_vars

\* the steps of request r in which something it awaits settles: the
\* resolver request, a body read, a gateway request or the delay
Settle(r, R, X) ==
    \/ \E s \in Settlements : ResolverSettle(r, s)
    \/ \E read \in BOOLEAN : ErrTextSettle(r, read)
    \/ \E decoded \in BOOLEAN, record \in R : JsonSettle(r, decoded, record)
    \/ \E g \in Gateways, x \in X : RaceSettle(r, g, x)
    \/ \E g \in Gateways, x \in X : LateSettle(r, g, x)
    \/ \E x \in X : FallbackSettle(r, x)
    \/ DelayElapse(r)
    \/ \E read \in BOOLEAN : BlobSettle(r, read)

\* SpecOne when every network request, body read and delay settles
\* eventually
SpecOneFair == SpecOne /\ WF_vars(Settle(1, AllRecords, FewGatewayResponses))

\* one request for a.brave.site over every gateway response
NextServe == Step(1, {join(<<A, BRAVE, SITE>>)}, Records, GatewayResponses)

SpecServe == Init /\ [][NextServe]_vars

\* the gateway settlements of the sequential specification
SomeGatewayResponses ==
    FewGatewayResponses \cup {GatewayResponse(200, Null, File \o DotJson)}

\* the pipeline run twice in sequence: request 2 arrives when request 1 has
\* ended
NextTwice ==
    \/ Step(1, Hostnames, Records, SomeGatewayResponses)
    \/ Done(1) /\ Step(2, Hostnames, Records, SomeGatewayResponses)

SpecTwice == Init /\ [][NextTwice]_vars

(***************************************************************************)
(* Properties.                                                             *)
(***************************************************************************)
Responded(r, status, body) ==
    /\ Done(r)
    /\ req[r].outcome = "response"
    /\ req[r].response.status = status
    /\ req[r].response.body = body

\* the request touched neither the cache, nor the resolver, nor a gateway
NoLookup(r) == req[r].lookups = 0 /\ req[r].queries = 0

NoGatewayRequest(r) ==
    /\ ~req[r].fetched
    /\ req[r].pending = {}
    /\ req[r].gwReqs = 0
    /\ req[r].ipfsResponse.gateway = 0

\* the hostname ends in .brave.site
EndsInDotBraveSite(h) == endsWith(h, DotBraveSite)

\* the hostname without its trailing .brave.site: the leading labels, joined
LeadingLabels(h) == SubSeq(h, 1, Len(h) - Len(DotBraveSite))

\* C5 as claimed: a request for exactly brave.site is answered with the
\* welcome response, HTTP 200, in every configuration, and performs neither
\* a cache lookup nor a resolver query.
C5_WelcomeInEveryConfiguration ==
    \A r \in Reqs :
        (Done(r) /\ req[r].hostname = BraveSite)
            => /\ Responded(r, 200, "Welcome to the .brave domain resolver")
               /\ NoLookup(r)

\* C5 as amended: a request for exactly brave.site is answered with the
\* welcome response, HTTP 200, when the API key is configured and with 500
\* 'API key not valid' when it is not; in both cases it performs neither a
\* cache lookup nor a resolver query nor a gateway request.
C5_WelcomeWhenConfigured ==
    \A r \in Reqs :
        (req[r].pc # "idle" /\ req[r].hostname = BraveSite)
            => /\ IF apiKey = "secret"
                  THEN Responded(r, 200, "Welcome to the .brave domain resolver")
                  ELSE Responded(r, 500, "API key not valid")
               /\ NoLookup(r)
               /\ NoGatewayRequest(r)

C5_Witness ==
    \E r \in Reqs :
        /\ req[r].hostname = BraveSite
        /\ Responded(r, 200, "Welcome to the .brave domain resolver")

\* C6 as claimed: a request whose hostname neither ends in .brave.site nor
\* equals brave.site is answered HTTP 400 in every configuration, and
\* performs no cache lookup, resolver query or gateway request.
C6_RejectedInEveryConfiguration ==
    \A r \in Reqs :
        (Done(r) /\ ~EndsInDotBraveSite(req[r].hostname) /\ req[r].hostname # BraveSite)
            => /\ req[r].outcome = "response"
               /\ req[r].response.status = 400
               /\ NoLookup(r)
               /\ NoGatewayRequest(r)

\* C6 as amended: such a request is answered HTTP 400 when the API key is
\* configured and 500 'API key not valid' when it is not; in both cases it
\* performs no cache lookup, resolver query or gateway request.
C6_RejectedWhenConfigured ==
    \A r \in Reqs :
        (req[r].pc # "idle" /\ ~EndsInDotBraveSite(req[r].hostname)
                            /\ req[r].hostname # BraveSite)
            => /\ IF apiKey = "secret"
                  THEN Responded(r, 400, "Invalid or unsupported domain format")
                  ELSE Responded(r, 500, "API key not valid")
               /\ NoLookup(r)
               /\ NoGatewayRequest(r)

C6_Witness ==
    \E r \in Reqs :
        /\ req[r].hostname = A \o DOT \o <<"x">> \o BraveSite
        /\ Responded(r, 400, "Invalid or unsupported domain format")

\* C7: for a hostname ending in .brave.site, the key of the cache lookup and
\* of the resolver query is the leading labels, joined by '.', followed by
\* .brave; it always ends in .brave.
C7_LookupKey ==
    \A r \in Reqs :
        (req[r].pc # "idle" /\ apiKey = "secret" /\ EndsInDotBraveSite(req[r].hostname))
            => /\ req[r].key = LeadingLabels(req[r].hostname) \o DotBrave
               /\ endsWith(req[r].key, DotBrave)
               /\ req[r].lookups = 1
               /\ req[r].cacheHit \/ req[r].queries = 1

C7_Witness ==
    \E r \in Reqs :
        /\ req[r].hostname = A \o DOT \o A \o DotBraveSite
        /\ req[r].key = A \o DOT \o A \o DotBrave
        /\ req[r].pc = "json"

\* a record value that is present and not the empty string
NonEmpty(v) == v \notin {Undefined, ""}

\* the record of request r carries its mapping at `records`
HasRecords(r) == req[r].record.at = "records"

Field(r, name) == req[r].record.map[name]

C2_FirstNonEmptyWins ==
    \A r \in Reqs :
        (req[r].record.at \in {"records", "none"}
            /\ ~NonEmpty(Field(r, "browser.redirect_url")))
            => IF NonEmpty(Field(r, "dweb.ipfs.hash"))
               THEN req[r].fetched /\ req[r].ipfsHash = Field(r, "dweb.ipfs.hash")
               ELSE IF NonEmpty(Field(r, "ipfs.html.value"))
               THEN req[r].fetched /\ req[r].ipfsHash = Field(r, "ipfs.html.value")
               ELSE IF NonEmpty(Field(r, "crypto.IPFS.value"))
               THEN req[r].fetched /\ req[r].ipfsHash = Field(r, "crypto.IPFS.value")
               ELSE /\ Responded(r, 404, "No IPFS hash found for domain")
                    /\ NoGatewayRequest(r)

C2_Witness ==
    \E r \in Reqs :
        /\ HasRecords(r)
        /\ Field(r, "browser.redirect_url") = ""
        /\ Field(r, "dweb.ipfs.hash") = ""
        /\ Field(r, "ipfs.html.value") = "QmHtml"
        /\ Field(r, "crypto.IPFS.value") = "QmCrypto"
        /\ Responded(r, 200, "ipfs content")
        /\ req[r].response.ipfsHash = "QmHtml"

Failed == {"status", "error"}

AllGatewaysFailed == "Error fetching IPFS content: All gateways failed"

\* gateway requests issued when attempt i (from 0) on gateway g is in flight
RequestsAt(g, i) == Len(gateways) + (g - 1) * retries + i + 1

C8_RaceState(r) ==
    /\ req[r].pc = "race"
        => /\ req[r].pending = {1, 2, 3}
           /\ req[r].gwReqs = 3
           /\ req[r].raceFirst = "none"
    /\ req[r].raceFirst = "ok"
        => /\ req[r].pc \in {"blob", "done"}
           /\ req[r].ipfsResponse.phase = "race"
           /\ req[r].ipfsResponse.gateway \notin req[r].pending
           /\ req[r].gwReqs = 3
           /\ req[r].delays = 0
    /\ req[r].raceFirst \in Failed
        => /\ req[r].pc \in {"fallback", "delay", "blob", "done"}
           /\ req[r].gwReqs >= 4
           /\ req[r].ipfsResponse.phase # "race"

\* a step in which a Phase 1 request settles after the race was decided
C8_LateStep(r) ==
    /\ req[r].raceFirst # "none"
    /\ req'[r].pending # req[r].pending

\* C8: Phase 1 issues one request to each of the three gateways at once and
\* the first to settle decides it: a 2xx is returned and Phase 2 is never
\* entered; a failure enters Phase 2 in the same step, with the other two
\* still in flight, and a candidate that settles later changes nothing: it
\* is never the result and raises no failure.
C8_FirstSettledDecides ==
    /\ [](\A r \in Reqs : C8_RaceState(r))
    /\ [][\A r \in Reqs :
            /\ (req[r].pc = "race" /\ req'[r].raceFirst \in Failed)
                => /\ req'[r].pc = "fallback"
                   /\ req'[r].gateway = 1 /\ req'[r].i = 0
                   /\ Cardinality(req'[r].pending) = 2
            /\ C8_LateStep(r)
                => req' = [req EXCEPT ![r].pending = req'[r].pending]]_vars

C8_Witness ==
    \E r \in Reqs :
        /\ req[r].raceFirst = "error"
        /\ req[r].pc = "fallback"
        /\ req[r].gateway = 2
        /\ Cardinality(req[r].pending) = 1

\* C9: Phase 2 visits cloudflare-ipfs.com, ipfs.io, dweb.link in this
\* order, makes at most `retries` attempts on each, one at a time, each
\* after the one before has failed, and returns the first 2xx response with
\* no attempt after it.
C9_SequentialFallback ==
    /\ gateways = <<"cloudflare-ipfs.com", "ipfs.io", "dweb.link">>
    /\ \A r \in Reqs :
        /\ req[r].pc \in {"fallback", "delay"}
            => /\ req[r].gateway \in 1 .. 3
               /\ req[r].i \in 0 .. retries - 1
               /\ req[r].gwReqs = RequestsAt(req[r].gateway, req[r].i)
               /\ req[r].raceFirst \in Failed
               /\ req[r].ipfsResponse.gateway = 0
        /\ req[r].pc = "delay" => req[r].i < retries - 1
        /\ req[r].ipfsResponse.phase = "fallback"
            => /\ req[r].pc \in {"blob", "done"}
               /\ req[r].gwReqs \in RequestsAt(req[r].ipfsResponse.gateway, 0)
                                    .. RequestsAt(req[r].ipfsResponse.gateway, retries - 1)

C9_Witness ==
    \E r \in Reqs :
        /\ req[r].ipfsResponse = [gateway |-> 2, phase |-> "fallback"]
        /\ req[r].gwReqs = RequestsAt(2, 1)
        /\ Responded(r, 200, "ipfs content")

\* C10: when the race and every fallback attempt fail the request ends
\* with 500 'All gateways failed', and that response is given only after
\* the race has failed and all retries x gateways attempts were made and
\* failed, none of them having returned 2xx.
C10_TotalFailure ==
    \A r \in Reqs :
        /\ (Done(r) /\ req[r].fetched /\ req[r].ipfsResponse.gateway = 0)
            => Responded(r, 500, AllGatewaysFailed)
        /\ (Done(r) /\ req[r].response.body = AllGatewaysFailed)
            => /\ Responded(r, 500, AllGatewaysFailed)
               /\ req[r].fetched
               /\ req[r].raceFirst \in Failed
               /\ req[r].gwReqs = Len(gateways) + retries * Len(gateways)
               /\ req[r].ipfsResponse.gateway = 0

C10_Witness ==
    \E r \in Reqs :
        /\ Responded(r, 500, AllGatewaysFailed)
        /\ req[r].gwReqs = 12
        /\ req[r].pending = {}

\* C3: once a resolver query for a key has been answered with a record,
\* the key stays in the cache, and every request for it that starts
\* afterwards takes the cache-hit path and issues no resolver query.
C3_CacheHitAfterResolution ==
    /\ \A k \in resolved : apiCacheHas(apiCache, k)
    /\ \A r \in Reqs :
        req[r].afterResolved
            => /\ req[r].cacheHit
               /\ req[r].queries = 0
               /\ req[r].pc \notin {"resolve", "errtext", "json"}
               /\ req[r].record # NoRecord

C3_Witness ==
    \E r, o \in Reqs :
        /\ r # o
        /\ req[o].key = req[r].key
        /\ req[o].queries = 1
        /\ req[o].pc = "fallback"
        /\ req[r].afterResolved
        /\ req[r].cacheHit
        /\ Done(r)

\* C4: no failure escapes handleRequest: every request ends with a
\* Response, and never in an uncaught-failure (rejected) state.
C4_NoFailureEscapes ==
    \A r \in Reqs : Done(r) => req[r].outcome = "response"

\* C11: with the API key missing, a request for a hostname that needs a
\* resolver query (a valid *.brave.site hostname, its key not cached) ends
\* with HTTP 500, issues no resolver query and no gateway request, and the
\* cache is left as it was.
C11_MissingCredential ==
    \A r \in Reqs :
        (req[r].pc # "idle" /\ ~Truthy(apiKey)
            /\ parseHostname(req[r].hostname) = "query")
            => /\ Responded(r, 500, "API key not valid")
               /\ NoLookup(r)
               /\ NoGatewayRequest(r)
               /\ apiCache = <<>>
               /\ resolved = {}

C11_Witness ==
    \E r \in Reqs :
        /\ apiKey = ""
        /\ req[r].hostname = A \o DOT \o A \o DotBraveSite
        /\ Responded(r, 500, "API key not valid")
        /\ req[r].queries = 0

\* the Response fetchIPFS returned to request r, if it returned one
Returned(r) == req[r].ipfsResponse.gateway # 0

\* the gateway declared a Content-Type
Declared(x) == x.contentType \notin {Null, ""}

\* the path ends in the extension
HasExtension(path, ext) ==
    /\ Len(path) >= Len(ext)
    /\ SubSeq(path, Len(path) - Len(ext) + 1, Len(path)) = ext

ByExtension(path) ==
    CASE HasExtension(path, DotPng) -> "image/png"
      [] HasExtension(path, DotJpg) -> "image/jpeg"
      [] HasExtension(path, DotJson) -> "application/json"
      [] OTHER -> "text/html"

\* a content response: the 200 response of lines 214-220
Content(r) == Responded(r, 200, "ipfs content")

\* C13: the Content-Type of the served response is the Content-Type the
\* gateway declared, unchanged, when it declared one, and is otherwise
\* decided by the ending of the path of the response url: .png gives
\* image/png, .jpg image/jpeg, .json application/json, anything else
\* text/html.
C13_ContentType ==
    \A r \in Reqs :
        LET x == req[r].fetchResponse
            expected == IF Declared(x) THEN x.contentType ELSE ByExtension(x.path)
        IN  /\ Returned(r) => req[r].contentType = expected
            /\ Content(r) => Returned(r) /\ req[r].response.ContentType = expected

C13_Witness ==
    \E r \in Reqs :
        /\ Content(r)
        /\ req[r].fetchResponse = GatewayResponse(200, Null, File \o DotPng)
        /\ req[r].response.ContentType = "image/png"

\* C14: fetchIPFS returns, in the race and in the fallback, only a Response
\* with a 2xx status, never another status or the result of a network
\* error; every content response is made from such a Response and carries
\* status 200, Cache-Control: public, max-age=3600 and
\* Access-Control-Allow-Origin: *.
C14_ContentFrom2xx ==
    \A r \in Reqs :
        /\ Returned(r)
            => /\ ~req[r].fetchResponse.error
               /\ req[r].fetchResponse.status \in 200 .. 299
               /\ req[r].ipfsResponse.phase \in {"race", "fallback"}
        /\ (Done(r) /\ req[r].response.ipfsHash # "")
            => /\ Returned(r)
               /\ Content(r)
               /\ req[r].response.CacheControl = "public, max-age=3600"
               /\ req[r].response.AccessControlAllowOrigin = "*"
        /\ (Done(r) /\ req[r].outcome = "response" /\ req[r].response.ipfsHash = "")
            => /\ req[r].response.CacheControl = Null
               /\ req[r].response.AccessControlAllowOrigin = Null

C14_Witness ==
    \E r \in Reqs :
        /\ Content(r)
        /\ req[r].ipfsResponse.phase = "fallback"
        /\ req[r].fetchResponse.status = 299
        /\ req[r].response.CacheControl = "public, max-age=3600"
        /\ req[r].response.AccessControlAllowOrigin = "*"

\* the status and the headers of the response of request r
StatusAndHeaders(r) ==
    [status |-> req[r].response.status,
     Location |-> req[r].response.Location,
     ContentType |-> req[r].response.ContentType,
     CacheControl |-> req[r].response.CacheControl,
     AccessControlAllowOrigin |-> req[r].response.AccessControlAllowOrigin]

\* the body read of line 213 failed
BlobFailed(r) == Returned(r) /\ req[r].outcome = "rejected"

\* the resolver answers the second run as it answered the first: a second
\* query fails if the first did
StableRecord == req[2].queries = 1 => req[2].record = req[1].record

\* fetchIPFS ends the second run as it ended the first, and so does the
\* body read
StableGateways ==
    /\ req[1].fetchResponse = req[2].fetchResponse
    /\ BlobFailed(1) <=> BlobFailed(2)

\* C12: the pipeline run twice in sequence with the same hostname and API
\* key, the resolver and the gateways behaving the same both times, ends
\* both times the same way, with the same status and the same headers; when
\* the first run got a record from the resolver, the second takes the
\* cache-hit path and processes that record.
C12_SameTwice ==
    (Done(1) /\ Done(2) /\ req[1].hostname = req[2].hostname
        /\ StableRecord /\ StableGateways)
        => /\ req[1].outcome = req[2].outcome
           /\ StatusAndHeaders(1) = StatusAndHeaders(2)
           /\ ~req[1].cacheHit
           /\ req[1].record # NoRecord
                => req[2].cacheHit /\ req[2].record = req[1].record

C12_Witness ==
    /\ req[1].hostname = req[2].hostname
    /\ req[1].queries = 1
    /\ req[2].cacheHit
    /\ req[1].ipfsResponse.phase = "race"
    /\ req[2].ipfsResponse.phase = "fallback"
    /\ req[1].fetchResponse = GatewayResponse(200, Null, File \o DotJson)
    /\ Content(1)
    /\ Content(2)
    /\ StatusAndHeaders(2).ContentType = "application/json"

\* C15: in Phase 2 a network exception and a non-2xx status are treated
\* alike: after a failed attempt that is not the last on its gateway the
\* inter-attempt delay elapses before the next attempt on that gateway, so
\* attempt i (from 0) on gateway g starts after (g - 1) * (retries - 1) + i
\* delays.
C15_DelayBeforeEveryRetry ==
    \A r \in Reqs :
        req[r].pc = "fallback"
            => req[r].delays = (req[r].gateway - 1) * (retries - 1) + req[r].i

\* C16: a record whose only mapping is at data.records is read as if the
\* mapping were at records: a non-empty browser.redirect_url there yields
\* the redirect, and otherwise a non-empty content field there yields
\* content with that identifier.
C16_DataRecordsRead ==
    \A r \in Reqs :
        req[r].record.at = "data.records"
            => /\ Field(r, "browser.redirect_url") = GoodUrl
                    => /\ Responded(r, 302, "")
                       /\ req[r].response.Location = GoodUrl
               /\ (~NonEmpty(Field(r, "browser.redirect_url"))
                      /\ NonEmpty(Field(r, "dweb.ipfs.hash")))
                    => /\ req[r].fetched
                       /\ req[r].ipfsHash = Field(r, "dweb.ipfs.hash")

\* the records the resolver has answered queries for key k with, as held by
\* the requests that made them
Answers(k) ==
    {req[r].record : r \in {o \in Reqs : req[o].key = k /\ req[o].queries = 1
                                          /\ req[o].record # NoRecord}}

\* C17: under every interleaving the cache holds one value per key, an
\* entry once present is never removed, the entries are those of the keys
\* some resolver query has answered with a record, and the value of each is
\* the record of the latest such answer for its key (last write wins), one
\* of the records the resolver answered for that key.
C17_LastWriteWins ==
    /\ [](/\ DOMAIN apiCache = resolved
          /\ apiCache = answered
          /\ \A k \in DOMAIN apiCache : apiCache[k] \in Answers(k))
    /\ [][\A k \in DOMAIN apiCache : k \in DOMAIN apiCache']_vars

C17_Witness ==
    \E r, o \in Reqs :
        /\ r # o
        /\ req[r].key = req[o].key
        /\ Done(r)
        /\ Done(o)
        /\ req[r].queries = 1
        /\ req[o].queries = 1
        /\ req[r].record # NoRecord
        /\ req[o].record # NoRecord
        /\ req[r].record # req[o].record
        /\ apiCache[req[r].key] = req[r].record

\* the requests that have looked key k up in the cache
LookedUp(k) == {r \in Reqs : req[r].lookups = 1 /\ req[r].key = k}

\* the requests that have queried the resolver for key k
Queried(k) == {r \in LookedUp(k) : req[r].queries >= 1}

\* C18: a request issues at most one resolver query: one when it misses
\* the cache (which it looks up only with the API key present), none when
\* it hits, and none again after its query has failed.  The requests for one
\* key between them issue at least one query and at most one each.
C18_OneQueryPerMiss ==
    /\ \A r \in Reqs :
        /\ req[r].queries \in {0, 1}
        /\ req[r].lookups = 1 => Truthy(apiKey) /\ (req[r].queries = 1 <=> ~req[r].cacheHit)
        /\ req[r].lookups = 0 => req[r].queries = 0 /\ ~req[r].cacheHit
    /\ \A r \in Reqs :
        req[r].lookups = 1
            => /\ Cardinality(Queried(req[r].key)) >= 1
               /\ Cardinality(Queried(req[r].key)) <= Cardinality(LookedUp(req[r].key))

\* every request has queried the resolver for the same key, and the
\* queries are in flight together
C18_Witness ==
    /\ \A r \in Reqs : req[r].pc = "resolve" /\ req[r].key = A \o DotBrave
    /\ Cardinality(Queried(A \o DotBrave)) = NumReqs

\* the resolver query of request r has failed
FailedQuery(r) == Done(r) /\ req[r].queries = 1 /\ req[r].record = NoRecord

\* C19: a resolver query that fails (a non-2xx status, a body that does not
\* decode, a network error) ends the request with HTTP 500 and no gateway
\* request, the step in which it fails leaves the cache as it was, and a
\* later request for the same key misses the cache and queries the
\* resolver.
C19_FailedQuery ==
    /\ [](\A r \in Reqs :
            FailedQuery(r)
                => /\ req[r].outcome = "response"
                   /\ req[r].response.status = 500
                   /\ req[r].response.body
                        \in {"Error querying Unstoppable Domains", "Server error"}
                   /\ NoGatewayRequest(r))
    /\ []((FailedQuery(1) /\ req[2].lookups = 1 /\ req[2].key = req[1].key)
            => ~req[2].cacheHit /\ req[2].queries = 1)
    /\ [][\A r \in Reqs :
            (~FailedQuery(r) /\ FailedQuery(r)') => apiCache' = apiCache]_vars

C19_Witness ==
    /\ FailedQuery(1)
    /\ req[1].response.body = "Error querying Unstoppable Domains"
    /\ req[2].key = req[1].key
    /\ req[2].queries = 1
    /\ Content(2)
    /\ apiCacheHas(apiCache, req[2].key)

\* the resources of one call of fetchIPFS: at most 3 + 3 * 3 gateway
\* requests and 2 * 3 delays, and no delay after the last attempt on a
\* gateway
Resources(r) ==
    /\ req[r].gwReqs <= Len(gateways) + retries * Len(gateways)
    /\ req[r].delays <= (retries - 1) * Len(gateways)
    /\ req[r].pc = "delay" => req[r].i < retries - 1

\* C20: every request that ends ends with one response, and one call of
\* fetchIPFS issues at most 12 gateway requests and at most 6 delays, none
\* of them after the last attempt on a gateway.
C20_EndsWithOneResponse ==
    \A r \in Reqs :
        /\ Resources(r)
        /\ Done(r) => req[r].outcome = "response" /\ req[r].response.status # 0

\* the part of C20 that holds: when everything awaited settles, every
\* request that has started ends, within the resources above
C20_EndsWithinResources ==
    /\ [](\A r \in Reqs : Resources(r))
    /\ \A r \in Reqs : (req[r].pc # "idle") ~> Done(r)

\* a request that has used all the resources
C20_AllResources ==
    \E r \in Reqs : Done(r) /\ req[r].gwReqs = 12 /\ req[r].delays = 6

====
